---- MODULE Spec2Model ----
(***************************************************************************)
(* The payment engine of source/payment_engine.py as a state machine.      *)
(*                                                                         *)
(* One step of the model is one iteration of the loop of                   *)
(* PaymentsEngine.run: the reader yields one record, TransactionsCreator   *)
(* builds the Transaction and asks the validator, and a valid transaction  *)
(* is handled by PaymentsEngine._handle_transaction.  When the input is    *)
(* exhausted the report is written.                                        *)
(*                                                                         *)
(* Amounts are whole numbers of a unit of the input.  The code computes    *)
(* with Python floats: every sum and difference is rounded to the nearest  *)
(* number of MantissaBits significant bits, ties to even (fl).  CPython's  *)
(* float has 53 such bits; the model has fewer, because its integers are   *)
(* 32 bits wide, and the amounts that make a sum round are given relative  *)
(* to MantissaBits (BigRecords).  Under Spec no sum reaches 2^MantissaBits *)
(* and all arithmetic is exact.                                            *)
(*                                                                         *)
(* The engine uses client ids and transaction ids only as dict keys and in *)
(* ==, never orders them or computes with them, so a step of the engine is *)
(* a step of this model up to a renaming of the ids.  The model therefore  *)
(* takes ids in first-use order (FirstUseOrder): an id that the engine has *)
(* not stored yet is always the smallest such id.                          *)
(***************************************************************************)
EXTENDS Integers, Sequences, FiniteSets, TLC

\* Bounds of the model.
MaxClient == 2
MaxTx == 2
MaxAmount == 2
MaxRecords == 4
MantissaBits == 4
MaxBigRecords == 7
MaxBigTx == 3

\* TransactionType
DEPOSIT == "deposit"
WITHDRAWAL == "withdrawal"
DISPUTE == "dispute"
RESOLVE == "resolve"
CHARGEBACK == "chargeback"
ALLTYPES == {DEPOSIT, WITHDRAWAL, DISPUTE, RESOLVE, CHARGEBACK}

\* The messages the engine logs.
DuplicatedMsg == "Duplicated transaction id"
LockedMsg == "Client account is locked, could not perform operation"
NoFundsMsg == "Not enough funds available"
DisputeMsg == "Dispute not possible"
ResolveMsg == "Resolve not possible"
ChargebackMsg == "Chargeback not possible"

VARIABLES
    _clients,                 \* dict client id -> Client, in insertion order
    _deposits_withdrawals,    \* dict transaction id -> Transaction
    _disputed_deposits_ids,   \* list of transaction ids under dispute
    log,                      \* what was logged while the latest record was handled
    transaction,              \* the latest record read from the input
    nread,                    \* number of records read so far
    pc,                       \* "run" while records are read, "done" after the
                              \* report, "crashed" after an uncaught exception
    output,                   \* the lines written to the output
    account_before            \* the account of the latest record's client when
                              \* the record was read (history)

vars == <<_clients, _deposits_withdrawals, _disputed_deposits_ids, log,
          transaction, nread, pc, output, account_before>>

----------------------------------------------------------------------------
\* Values

Account == [available |-> 0, held |-> 0, locked |-> FALSE]


Client(client_id) == [id |-> client_id, account |-> Account]

\* The unit in the last place of a float of magnitude x >= 0, from q upwards.
RECURSIVE ulp(_, _)
ulp(x, q) == IF x < (2 ^ MantissaBits) * q THEN q ELSE ulp(x, 2 * q)

\* x >= 0 rounded to MantissaBits significant bits, ties to even
round_half_even(x) ==
    LET q == ulp(x, 1)
        lo == (x \div q) * q
    IN IF 2 * (x - lo) < q THEN lo
       ELSE IF 2 * (x - lo) > q THEN lo + q
       ELSE IF (x \div q) % 2 = 0 THEN lo ELSE lo + q

\* the float nearest to x
fl(x) == IF x < 0 THEN 0 - round_half_even(0 - x) ELSE round_half_even(x)

\* float + and -
fadd(a, b) == fl(a + b)

fsub(a, b) == fl(a - b)

total(account) == fadd(account.available, account.held)

Transaction(transaction_type, client_id, transaction_id, amount) ==
    [type |-> transaction_type, client_id |-> client_id,
     id |-> transaction_id, amount |-> amount]

\* What the reader can yield.  "transfer" stands for any kind that is not one
\* of the five; the amount field of a dispute, resolve or chargeback row is
\* empty in the input and never read by the engine (0 stands for it).
Records ==
    {r \in [type : ALLTYPES \cup {"transfer"}, client_id : 1..MaxClient,
            id : 1..MaxTx, amount : (-1)..MaxAmount] :
        r.type \notin {DEPOSIT, WITHDRAWAL} => r.amount = 0}

----------------------------------------------------------------------------
\* Python's dict and list operations, as the engine uses them

\* key in clients
HasClient(clients, client_id) == \E i \in 1..Len(clients) : clients[i].id = client_id

\* the place of clients[key]
ClientAt(clients, client_id) == CHOOSE i \in 1..Len(clients) : clients[i].id = client_id

\* dict.setdefault(key, Client(key))
setdefault(clients, client_id) ==
    IF HasClient(clients, client_id) THEN clients
    ELSE Append(clients, Client(client_id))

\* d[key] = value
setitem(d, key, value) ==
    [k \in DOMAIN d \cup {key} |-> IF k = key THEN value ELSE d[k]]

\* list.remove(x): the first occurrence of x is removed
remove(list, x) ==
    LET i == CHOOSE j \in 1..Len(list) :
                 list[j] = x /\ \A k \in 1..(j - 1) : list[k] # x
    IN SubSeq(list, 1, i - 1) \o SubSeq(list, i + 1, Len(list))

\* logging.error(msg)
error(self, msg) == [self EXCEPT !.log = Append(@, msg)]

\* an exception leaves the handler; nothing in the program catches it
raise(self, exception) == [self EXCEPT !.raised = exception]

----------------------------------------------------------------------------
\* TransactionValidator

_is_valid_type(transaction_type) == transaction_type \in ALLTYPES

\* Variant: >= in place of >, so an amount of zero passes.
_is_greater_than_zero_zero_allowed(t) ==
    IF t.type \in {DEPOSIT, WITHDRAWAL} THEN t.amount >= 0 ELSE TRUE

_is_greater_than_zero(t) ==
    IF t.type \in {DEPOSIT, WITHDRAWAL} THEN t.amount > 0 ELSE TRUE

is_valid(t) == _is_valid_type(t.type) /\ _is_greater_than_zero(t)

----------------------------------------------------------------------------
\* PaymentsEngine.  self is the engine's state: [clients, deposits_withdrawals,
\* disputed_deposits_ids, log, raised]; client is the place of the Client in
\* clients; raised is the exception that left the handler, "" when none did.

\* Variant: the id is looked up among the disputed ids, not in the ledger.
_is_transaction_unique_among_disputed(self, transaction_id) ==
    \A i \in 1..Len(self.disputed_deposits_ids) :
        self.disputed_deposits_ids[i] # transaction_id

_is_transaction_unique(self, transaction_id) ==
    transaction_id \notin DOMAIN self.deposits_withdrawals

_is_under_dispute(self, t) ==
    \E i \in 1..Len(self.disputed_deposits_ids) : self.disputed_deposits_ids[i] = t.id

\* Variants: without the test that the id is not under dispute; without the
\* test that the id has an entry.
_is_transaction_disputable_again(self, t) == t.id \in DOMAIN self.deposits_withdrawals

_is_transaction_disputable_unknown_id(self, t) == ~ _is_under_dispute(self, t)

_is_transaction_disputable(self, t) ==
    t.id \in DOMAIN self.deposits_withdrawals /\ ~ _is_under_dispute(self, t)

\* Variant: the entry is looked up but its owner is not compared.
_is_client_correct_any(self, t) == t.id \in DOMAIN self.deposits_withdrawals

\* Raises KeyError when the id has no entry (KeyError below).
_is_client_correct(self, t) ==
    t.client_id = self.deposits_withdrawals[t.id].client_id

\* Variants: the total in place of available; > in place of >=.
_are_enough_funds_total(amount, client) == total(client.account) >= amount

_are_enough_funds_strict(amount, client) == client.account.available > amount

_are_enough_funds(amount, client) == client.account.available >= amount

\* self._deposits_withdrawals[transaction.id] raises KeyError
KeyError(self, t) == t.id \notin DOMAIN self.deposits_withdrawals

\* self._disputed_deposits_ids.remove(transaction.id) raises ValueError
ValueError(self, t) ==
    \A i \in 1..Len(self.disputed_deposits_ids) : self.disputed_deposits_ids[i] # t.id

\* Variant: the entry is stored under the client id.
_deposit_keyed_by_client(self, t, client) ==
    [self EXCEPT !.deposits_withdrawals = setitem(@, t.client_id, t),
                 !.clients[client].account.available = fadd(@, t.amount)]

_deposit(self, t, client) ==
    [self EXCEPT !.deposits_withdrawals = setitem(@, t.id, t),
                 !.clients[client].account.available = fadd(@, t.amount)]

\* Variant: the entry is recorded before the funds are tested.
_withdrawal_records_first(self, t, client) ==
    LET recorded == [self EXCEPT !.deposits_withdrawals = setitem(@, t.id, t)]
    IN IF _are_enough_funds(t.amount, self.clients[client])
       THEN [recorded EXCEPT !.clients[client].account.available = fsub(@, t.amount)]
       ELSE error(recorded, NoFundsMsg)

_withdrawal(self, t, client) ==
    IF _are_enough_funds(t.amount, self.clients[client])
    THEN [self EXCEPT !.deposits_withdrawals = setitem(@, t.id, t),
                      !.clients[client].account.available = fsub(@, t.amount)]
    ELSE error(self, NoFundsMsg)

\* Variant: the id is marked disputed before the funds are tested.
_dispute_marks_first(self, t, client) ==
    IF ~ _is_transaction_disputable(self, t) THEN error(self, DisputeMsg)
    ELSE IF KeyError(self, t) THEN raise(self, "KeyError")
    ELSE IF ~ _is_client_correct(self, t) THEN error(self, DisputeMsg)
    ELSE LET amount == self.deposits_withdrawals[t.id].amount
             marked == [self EXCEPT !.disputed_deposits_ids = Append(@, t.id)]
         IN IF _are_enough_funds(amount, self.clients[client])
            THEN [marked EXCEPT !.clients[client].account.available = fsub(@, amount),
                                !.clients[client].account.held = fadd(@, amount)]
            ELSE marked

\* "and" evaluates _is_client_correct only when the first test holds
_dispute(self, t, client) ==
    IF ~ _is_transaction_disputable(self, t) THEN error(self, DisputeMsg)
    ELSE IF KeyError(self, t) THEN raise(self, "KeyError")
    ELSE IF ~ _is_client_correct(self, t) THEN error(self, DisputeMsg)
    ELSE LET amount == self.deposits_withdrawals[t.id].amount
         IN IF _are_enough_funds(amount, self.clients[client])
            THEN [self EXCEPT !.disputed_deposits_ids = Append(@, t.id),
                              !.clients[client].account.available = fsub(@, amount),
                              !.clients[client].account.held = fadd(@, amount)]
            ELSE self

\* Variant: the id stays in the list of disputed ids.
_resolve_keeps_dispute(self, t, client) ==
    IF ~ _is_under_dispute(self, t) THEN error(self, ResolveMsg)
    ELSE IF KeyError(self, t) THEN raise(self, "KeyError")
    ELSE IF ~ _is_client_correct(self, t) THEN error(self, ResolveMsg)
    ELSE LET amount == self.deposits_withdrawals[t.id].amount
         IN [self EXCEPT !.clients[client].account.held = fsub(@, amount),
                         !.clients[client].account.available = fadd(@, amount)]

\* Variant: the entry is resolved on the account of its owner, whoever sent
\* the record.
_resolve_of_owner(self, t, client) ==
    IF ~ _is_under_dispute(self, t) THEN error(self, ResolveMsg)
    ELSE IF KeyError(self, t) THEN raise(self, "KeyError")
    ELSE LET entry == self.deposits_withdrawals[t.id]
             owner == ClientAt(self.clients, entry.client_id)
         IN [self EXCEPT !.disputed_deposits_ids = remove(@, t.id),
                         !.clients[owner].account.held = fsub(@, entry.amount),
                         !.clients[owner].account.available = fadd(@, entry.amount)]

_resolve(self, t, client) ==
    IF ~ _is_under_dispute(self, t) THEN error(self, ResolveMsg)
    ELSE IF KeyError(self, t) THEN raise(self, "KeyError")
    ELSE IF ~ _is_client_correct(self, t) THEN error(self, ResolveMsg)
    ELSE IF ValueError(self, t) THEN raise(self, "ValueError")
    ELSE LET amount == self.deposits_withdrawals[t.id].amount
         IN [self EXCEPT !.disputed_deposits_ids = remove(@, t.id),
                         !.clients[client].account.held = fsub(@, amount),
                         !.clients[client].account.available = fadd(@, amount)]

\* Variant: the id stays in the list of disputed ids.
_chargeback_keeps_dispute(self, t, client) ==
    IF ~ _is_under_dispute(self, t) THEN error(self, ChargebackMsg)
    ELSE IF KeyError(self, t) THEN raise(self, "KeyError")
    ELSE IF ~ _is_client_correct(self, t) THEN error(self, ChargebackMsg)
    ELSE [self EXCEPT !.clients[client].account.held =
                          fsub(@, self.deposits_withdrawals[t.id].amount),
                      !.clients[client].account.locked = TRUE]

\* Variant: the account is not locked.
_chargeback_without_lock(self, t, client) ==
    IF ~ _is_under_dispute(self, t) THEN error(self, ChargebackMsg)
    ELSE IF KeyError(self, t) THEN raise(self, "KeyError")
    ELSE IF ~ _is_client_correct(self, t) THEN error(self, ChargebackMsg)
    ELSE [self EXCEPT !.disputed_deposits_ids = remove(@, t.id),
                      !.clients[client].account.held =
                          fsub(@, self.deposits_withdrawals[t.id].amount)]

_chargeback(self, t, client) ==
    IF ~ _is_under_dispute(self, t) THEN error(self, ChargebackMsg)
    ELSE IF KeyError(self, t) THEN raise(self, "KeyError")
    ELSE IF ~ _is_client_correct(self, t) THEN error(self, ChargebackMsg)
    ELSE IF ValueError(self, t) THEN raise(self, "ValueError")
    ELSE [self EXCEPT !.disputed_deposits_ids = remove(@, t.id),
                      !.clients[client].account.held =
                          fsub(@, self.deposits_withdrawals[t.id].amount),
                      !.clients[client].account.locked = TRUE]

\* the chain of conditions on the transaction type, for an unlocked account
dispatch(self, t, client) ==
    CASE t.type = DEPOSIT ->
            IF _is_transaction_unique(self, t.id) THEN _deposit(self, t, client)
            ELSE error(self, DuplicatedMsg)
      [] t.type = WITHDRAWAL ->
            IF _is_transaction_unique(self, t.id) THEN _withdrawal(self, t, client)
            ELSE error(self, DuplicatedMsg)
      [] t.type = DISPUTE -> _dispute(self, t, client)
      [] t.type = RESOLVE -> _resolve(self, t, client)
      [] t.type = CHARGEBACK -> _chargeback(self, t, client)
      [] OTHER -> self

\* Variant: a locked account still takes deposits.
_handle_transaction_deposit_exempt(self, t) ==
    LET s == [self EXCEPT !.clients = setdefault(@, t.client_id)]
        client == ClientAt(s.clients, t.client_id)
    IN IF ~ s.clients[client].account.locked \/ t.type = DEPOSIT
       THEN dispatch(s, t, client)
       ELSE error(s, LockedMsg)

_handle_transaction(self, t) ==
    LET s == [self EXCEPT !.clients = setdefault(@, t.client_id)]
        client == ClientAt(s.clients, t.client_id)
    IN IF ~ s.clients[client].account.locked
       THEN dispatch(s, t, client)
       ELSE error(s, LockedMsg)

----------------------------------------------------------------------------
\* The report

get_header == <<"client", "available", "held", "total", "locked">>

\* Client.get_balance: id, available, held, total and the lock as true/false
get_balance(client) ==
    <<client.id, client.account.available, client.account.held,
      total(client.account),
      IF client.account.locked = FALSE THEN "false" ELSE "true">>

\* Variant: the lines are sorted by client id.
get_balances_sorted(clients) ==
    [i \in 1..Len(clients) |->
        get_balance(CHOOSE c \in {clients[j] : j \in 1..Len(clients)} :
            Cardinality({j \in 1..Len(clients) : clients[j].id < c.id}) = i - 1)]

get_balances(clients) == [i \in 1..Len(clients) |-> get_balance(clients[i])]

----------------------------------------------------------------------------
\* The state machine

Init ==
    /\ _clients = <<>>
    /\ _deposits_withdrawals = <<>>
    /\ _disputed_deposits_ids = <<>>
    /\ log = <<>>
    /\ transaction = Transaction("", 0, 0, 0)
    /\ nread = 0
    /\ pc = "run"
    /\ output = <<>>
    /\ account_before = Account

\* One iteration of the loop of run: the next record is read, validated and,
\* when valid, handled.  An exception of the handler ends the program.
Step(record) ==
    /\ pc = "run"
    /\ LET t == Transaction(record.type, record.client_id, record.id, record.amount)
           self == [clients |-> _clients,
                    deposits_withdrawals |-> _deposits_withdrawals,
                    disputed_deposits_ids |-> _disputed_deposits_ids,
                    log |-> <<>>,
                    raised |-> ""]
           after == IF is_valid(t) THEN _handle_transaction(self, t) ELSE self
       IN /\ transaction' = t
          /\ _clients' = after.clients
          /\ _deposits_withdrawals' = after.deposits_withdrawals
          /\ _disputed_deposits_ids' = after.disputed_deposits_ids
          /\ log' = after.log
          /\ pc' = IF after.raised = "" THEN "run" ELSE "crashed"
    /\ account_before' = IF HasClient(_clients, record.client_id)
                         THEN _clients[ClientAt(_clients, record.client_id)].account
                         ELSE Account
    /\ nread' = nread + 1
    /\ UNCHANGED output

\* The input is exhausted: the header and the balances are written.
Report ==
    /\ pc = "run"
    /\ output' = <<get_header>> \o get_balances(_clients)
    /\ pc' = "done"
    /\ UNCHANGED <<_clients, _deposits_withdrawals, _disputed_deposits_ids, log,
                   transaction, nread, account_before>>

\* Ids in first-use order: an id the engine has not stored is the smallest one.
FirstUseOrder(record) ==
    /\ record.client_id <= Len(_clients) + 1
    /\ record.id <= Cardinality(DOMAIN _deposits_withdrawals) + 1

Run ==
    /\ nread < MaxRecords
    /\ \E record \in Records : FirstUseOrder(record) /\ Step(record)

Next ==
    \/ Run
    \/ Report

Spec == Init /\ [][Next]_vars

\* The program runs on: a record is read while there is one, then the report
\* is written.
SpecLive == Spec /\ WF_vars(Next)

\* Client ids in any order (transaction ids in first-use order).
RunAnyClient ==
    /\ nread < MaxRecords
    /\ \E record \in Records :
           /\ record.id <= Cardinality(DOMAIN _deposits_withdrawals) + 1
           /\ Step(record)

NextAnyClient ==
    \/ RunAnyClient
    \/ Report

SpecAnyClient == Init /\ [][NextAnyClient]_vars

\* Records of one client with amounts at the edge of the significand: the
\* largest odd number a float holds exactly, and 2.
BigRecords ==
    {r \in [type : ALLTYPES, client_id : {1}, id : 1..MaxBigTx,
            amount : {0, 2, 2 ^ MantissaBits - 1}] :
        (r.amount = 0) <=> (r.type \notin {DEPOSIT, WITHDRAWAL})}

RunBig ==
    /\ nread < MaxBigRecords
    /\ \E record \in BigRecords :
           /\ record.id <= Cardinality(DOMAIN _deposits_withdrawals) + 1
           /\ Step(record)

NextFloat ==
    \/ RunBig
    \/ Report

SpecFloat == Init /\ [][NextFloat]_vars

----------------------------------------------------------------------------
\* What the properties below speak of

\* The step handled the record transaction'.
Handled == nread' = nread + 1

\* A record the validator must reject: an unknown kind, or a deposit or
\* withdrawal whose amount is not positive.
Malformed(t) ==
    \/ t.type \notin {"deposit", "withdrawal", "dispute", "resolve", "chargeback"}
    \/ t.type \in {"deposit", "withdrawal"} /\ t.amount <= 0

\* The account of client c in the store; zero balances when none exists yet.
AccountOf(clients, c) ==
    IF \E i \in 1..Len(clients) : clients[i].id = c
    THEN clients[CHOOSE i \in 1..Len(clients) : clients[i].id = c].account
    ELSE [available |-> 0, held |-> 0, locked |-> FALSE]

Locked(clients, c) == AccountOf(clients, c).locked

InLedger(ledger, id) == id \in DOMAIN ledger

Disputed(ids, id) == \E i \in 1..Len(ids) : ids[i] = id

\* The accounts that existed before the step are as they were, an account the
\* step created has zero balances, and ledger and disputes are as they were.
NoEffect ==
    /\ Len(_clients') >= Len(_clients)
    /\ \A i \in 1..Len(_clients) : _clients'[i] = _clients[i]
    /\ \A i \in (Len(_clients) + 1)..Len(_clients') :
           _clients'[i].account = [available |-> 0, held |-> 0, locked |-> FALSE]
    /\ _deposits_withdrawals' = _deposits_withdrawals
    /\ _disputed_deposits_ids' = _disputed_deposits_ids

\* Only the account of client c may differ after the step.
OnlyAccount(c) ==
    \A d \in 1..MaxClient : d # c => AccountOf(_clients', d) = AccountOf(_clients, d)

----------------------------------------------------------------------------
\* C1: a record of any kind whose client's account is locked when the record
\* is handled changes nothing: the accounts, the ledger and the disputes are
\* the same after as before; and a locked account stays locked.
C1_LockedAccountChangesNothing ==
    [][ /\ (Handled /\ Locked(_clients, transaction'.client_id))
            => /\ _clients' = _clients
               /\ _deposits_withdrawals' = _deposits_withdrawals
               /\ _disputed_deposits_ids' = _disputed_deposits_ids
        /\ \A c \in 1..MaxClient : Locked(_clients, c) => Locked(_clients', c)
      ]_vars

\* A deposit was sent to a locked account and refused.
C1_Witness ==
    /\ nread > 0
    /\ transaction.type = DEPOSIT
    /\ transaction.amount > 0
    /\ Locked(_clients, transaction.client_id)
    /\ log = <<LockedMsg>>

\* C2: on an unlocked account a deposit is accepted (entry recorded, available
\* increased by the amount) exactly when its id has no ledger entry of any
\* client; a deposit or withdrawal whose id is in the ledger changes no
\* balance and no ledger entry.
C2_GloballyUniqueIds ==
    [][ (Handled /\ ~ Malformed(transaction'))
        => LET t == transaction'
               before == AccountOf(_clients, t.client_id)
               after == AccountOf(_clients', t.client_id)
           IN /\ (t.type = DEPOSIT /\ ~ before.locked
                    /\ ~ InLedger(_deposits_withdrawals, t.id))
                  => /\ DOMAIN _deposits_withdrawals' =
                            DOMAIN _deposits_withdrawals \cup {t.id}
                     /\ _deposits_withdrawals'[t.id] = t
                     /\ \A id \in DOMAIN _deposits_withdrawals :
                            _deposits_withdrawals'[id] = _deposits_withdrawals[id]
                     /\ after.available = before.available + t.amount
                     /\ after.held = before.held
                     /\ OnlyAccount(t.client_id)
              /\ (t.type \in {DEPOSIT, WITHDRAWAL}
                    /\ InLedger(_deposits_withdrawals, t.id))
                  => NoEffect
      ]_vars

\* A deposit reused the id of another client's entry and was refused.
C2_Witness ==
    /\ nread > 0
    /\ transaction.type = DEPOSIT
    /\ transaction.amount > 0
    /\ InLedger(_deposits_withdrawals, transaction.id)
    /\ _deposits_withdrawals[transaction.id].client_id # transaction.client_id
    /\ log = <<DuplicatedMsg>>

\* C3: the available balance of every account is never negative.
C3_AvailableNeverNegative ==
    \A i \in 1..Len(_clients) : _clients[i].account.available >= 0

\* A withdrawal of more than the available balance was refused, on an account
\* that holds funds under dispute.
C3_Witness ==
    /\ nread > 0
    /\ transaction.type = WITHDRAWAL
    /\ log = <<NoFundsMsg>>
    /\ AccountOf(_clients, transaction.client_id).available < transaction.amount
    /\ AccountOf(_clients, transaction.client_id).held >= transaction.amount

\* C4: the active disputes hold every transaction id at most once, and a
\* dispute on an id that is under active dispute changes neither a balance
\* nor the disputes.
C4_OneActiveDisputePerId ==
    [][ /\ \A i, j \in 1..Len(_disputed_deposits_ids') :
               _disputed_deposits_ids'[i] = _disputed_deposits_ids'[j] => i = j
        /\ (Handled /\ transaction'.type = DISPUTE
              /\ Disputed(_disputed_deposits_ids, transaction'.id))
            => /\ _disputed_deposits_ids' = _disputed_deposits_ids
               /\ \A c \in 1..MaxClient :
                      AccountOf(_clients', c) = AccountOf(_clients, c)
      ]_vars

\* The owner disputed an id that was already under dispute and was refused.
C4_Witness ==
    /\ nread > 0
    /\ transaction.type = DISPUTE
    /\ Disputed(_disputed_deposits_ids, transaction.id)
    /\ _deposits_withdrawals[transaction.id].client_id = transaction.client_id
    /\ log = <<DisputeMsg>>

\* C5: a dispute, resolve or chargeback of a client other than the owner of
\* the referenced ledger entry is refused: no balance, no lock and no dispute
\* membership changes, and the refusal is logged.
C5_OtherClientsEntryRefused ==
    [][ (/\ Handled
         /\ transaction'.type \in {DISPUTE, RESOLVE, CHARGEBACK}
         /\ InLedger(_deposits_withdrawals, transaction'.id)
         /\ _deposits_withdrawals[transaction'.id].client_id # transaction'.client_id)
        => /\ \A c \in 1..MaxClient : AccountOf(_clients', c) = AccountOf(_clients, c)
           /\ _disputed_deposits_ids' = _disputed_deposits_ids
           /\ Len(log') >= 1
      ]_vars

\* A client sent a chargeback for another client's entry that is under
\* dispute, and the entry is still under dispute.
C5_Witness ==
    /\ nread > 0
    /\ transaction.type = CHARGEBACK
    /\ InLedger(_deposits_withdrawals, transaction.id)
    /\ _deposits_withdrawals[transaction.id].client_id # transaction.client_id
    /\ Disputed(_disputed_deposits_ids, transaction.id)
    /\ ~ Locked(_clients, transaction.client_id)
    /\ log = <<ChargebackMsg>>

\* The record t meets one of the business rules for a refusal: a locked
\* account, a duplicate id, insufficient available funds, a dispute, resolve
\* or chargeback of an absent or another client's entry, a resolve or
\* chargeback of an id that is not under dispute.
Refused(t) ==
    LET account == AccountOf(_clients, t.client_id)
        known == InLedger(_deposits_withdrawals, t.id)
    IN \/ account.locked
       \/ t.type \in {DEPOSIT, WITHDRAWAL} /\ known
       \/ t.type = WITHDRAWAL /\ account.available < t.amount
       \/ /\ t.type = DISPUTE
          /\ known
          /\ account.available < _deposits_withdrawals[t.id].amount
       \/ /\ t.type \in {DISPUTE, RESOLVE, CHARGEBACK}
          /\ (~ known \/ _deposits_withdrawals[t.id].client_id # t.client_id)
       \/ /\ t.type \in {RESOLVE, CHARGEBACK}
          /\ ~ Disputed(_disputed_deposits_ids, t.id)

\* C6: a record refused for a business rule has no effect: every existing
\* account, every ledger entry and the active disputes are as before.
C6_RefusalHasNoEffect ==
    [][ (Handled /\ ~ Malformed(transaction') /\ Refused(transaction'))
        => NoEffect
      ]_vars

\* A withdrawal of more than the available balance was refused on an account
\* that has funds, and its id is still unused.
C6_Witness ==
    /\ nread > 0
    /\ transaction.type = WITHDRAWAL
    /\ transaction.amount > 0
    /\ log = <<NoFundsMsg>>
    /\ AccountOf(_clients, transaction.client_id).available > 0
    /\ ~ InLedger(_deposits_withdrawals, transaction.id)

\* C7: every valid record that the engine does not apply logs at least one
\* diagnostic while it is handled.
C7_EveryRefusalIsLogged ==
    [][ (Handled /\ ~ Malformed(transaction') /\ NoEffect)
        => Len(log') >= 1
      ]_vars

\* C8: a malformed record has no effect at all: no account is created, no
\* ledger entry is recorded, no balance and no dispute changes, nothing is
\* logged by the engine; and the report lists exactly the accounts of the
\* store, so a client that only malformed records name is absent from it.
C8_MalformedRecordHasNoEffect ==
    [][ /\ (Handled /\ Malformed(transaction'))
            => /\ _clients' = _clients
               /\ _deposits_withdrawals' = _deposits_withdrawals
               /\ _disputed_deposits_ids' = _disputed_deposits_ids
               /\ log' = <<>>
        /\ pc' = "done"
            => /\ Len(output') = 1 + Len(_clients')
               /\ \A i \in 1..Len(_clients') : output'[i + 1][1] = _clients'[i].id
      ]_vars

\* The last record was a deposit of a non-positive amount for a client that
\* no other record named; the report is written and has no line for it.
C8_Witness ==
    /\ pc = "done"
    /\ nread > 1
    /\ transaction.type = DEPOSIT
    /\ transaction.amount <= 0
    /\ \A i \in 1..Len(_clients) : _clients[i].id # transaction.client_id
    /\ Len(output) = 1 + Len(_clients)
    /\ ~ InLedger(_deposits_withdrawals, transaction.id)

\* C9: on an unlocked account a dispute is accepted exactly when the entry
\* exists, is the client's own, is not under dispute and available covers its
\* amount; then the id is marked disputed and the amount moves from available
\* to held; otherwise none of the three changes.
C9_DisputeAllOrNothing ==
    [][ (/\ Handled
         /\ transaction'.type = DISPUTE
         /\ ~ Locked(_clients, transaction'.client_id))
        => LET t == transaction'
               before == AccountOf(_clients, t.client_id)
               after == AccountOf(_clients', t.client_id)
               accepted ==
                   /\ InLedger(_deposits_withdrawals, t.id)
                   /\ _deposits_withdrawals[t.id].client_id = t.client_id
                   /\ ~ Disputed(_disputed_deposits_ids, t.id)
                   /\ before.available >= _deposits_withdrawals[t.id].amount
           IN IF accepted
              THEN /\ _disputed_deposits_ids' = Append(_disputed_deposits_ids, t.id)
                   /\ after.available =
                          before.available - _deposits_withdrawals[t.id].amount
                   /\ after.held = before.held + _deposits_withdrawals[t.id].amount
              ELSE /\ _disputed_deposits_ids' = _disputed_deposits_ids
                   /\ after.available = before.available
                   /\ after.held = before.held
      ]_vars

\* The owner's dispute of a deposit was accepted: the id is under dispute and
\* the account holds the amount, with other funds still available.
C9_Witness ==
    /\ nread > 0
    /\ transaction.type = DISPUTE
    /\ log = <<>>
    /\ Disputed(_disputed_deposits_ids, transaction.id)
    /\ _deposits_withdrawals[transaction.id].client_id = transaction.client_id
    /\ _deposits_withdrawals[transaction.id].type = DEPOSIT
    /\ AccountOf(_clients, transaction.client_id).held =
           _deposits_withdrawals[transaction.id].amount
    /\ AccountOf(_clients, transaction.client_id).available > 0

\* C10: on an unlocked account a withdrawal is accepted exactly when its id
\* has no ledger entry and available >= amount; then the entry is recorded
\* and available decreases by the amount, held unchanged; otherwise nothing
\* changes.
C10_WithdrawalAcceptedIff ==
    [][ (/\ Handled
         /\ ~ Malformed(transaction')
         /\ transaction'.type = WITHDRAWAL
         /\ ~ Locked(_clients, transaction'.client_id))
        => LET t == transaction'
               before == AccountOf(_clients, t.client_id)
               after == AccountOf(_clients', t.client_id)
           IN IF ~ InLedger(_deposits_withdrawals, t.id)
                 /\ before.available >= t.amount
              THEN /\ DOMAIN _deposits_withdrawals' =
                          DOMAIN _deposits_withdrawals \cup {t.id}
                   /\ _deposits_withdrawals'[t.id] = t
                   /\ \A id \in DOMAIN _deposits_withdrawals :
                          _deposits_withdrawals'[id] = _deposits_withdrawals[id]
                   /\ after.available = before.available - t.amount
                   /\ after.held = before.held
                   /\ after.locked = before.locked
                   /\ _disputed_deposits_ids' = _disputed_deposits_ids
                   /\ OnlyAccount(t.client_id)
              ELSE NoEffect
      ]_vars

\* A withdrawal of exactly the available balance was accepted.
C10_Witness ==
    /\ nread > 0
    /\ transaction.type = WITHDRAWAL
    /\ log = <<>>
    /\ InLedger(_deposits_withdrawals, transaction.id)
    /\ _deposits_withdrawals[transaction.id] = transaction
    /\ AccountOf(_clients, transaction.client_id).available = 0
    /\ AccountOf(_clients, transaction.client_id).held = 0

\* The list ids without its element id.
Without(ids, id) ==
    LET i == CHOOSE j \in 1..Len(ids) : ids[j] = id
    IN SubSeq(ids, 1, i - 1) \o SubSeq(ids, i + 1, Len(ids))

\* C11: on an unlocked account a chargeback is accepted exactly when the id is
\* under active dispute and the entry is the client's own; then the id leaves
\* the active disputes, held decreases by the entry's amount, available is
\* unchanged and the account is locked; otherwise nothing changes.
C11_ChargebackAcceptedIff ==
    [][ (/\ Handled
         /\ transaction'.type = CHARGEBACK
         /\ ~ Locked(_clients, transaction'.client_id))
        => LET t == transaction'
               before == AccountOf(_clients, t.client_id)
               after == AccountOf(_clients', t.client_id)
           IN IF /\ Disputed(_disputed_deposits_ids, t.id)
                 /\ InLedger(_deposits_withdrawals, t.id)
                 /\ _deposits_withdrawals[t.id].client_id = t.client_id
              THEN /\ _disputed_deposits_ids' = Without(_disputed_deposits_ids, t.id)
                   /\ after.held = before.held - _deposits_withdrawals[t.id].amount
                   /\ after.available = before.available
                   /\ after.locked
                   /\ _deposits_withdrawals' = _deposits_withdrawals
                   /\ OnlyAccount(t.client_id)
              ELSE NoEffect
      ]_vars

\* A chargeback of one of two deposits was accepted: the account is locked,
\* holds nothing and keeps the other deposit available.
C11_Witness ==
    /\ nread > 0
    /\ transaction.type = CHARGEBACK
    /\ log = <<>>
    /\ InLedger(_deposits_withdrawals, transaction.id)
    /\ _deposits_withdrawals[transaction.id].client_id = transaction.client_id
    /\ ~ Disputed(_disputed_deposits_ids, transaction.id)
    /\ AccountOf(_clients, transaction.client_id).locked
    /\ AccountOf(_clients, transaction.client_id).held = 0
    /\ AccountOf(_clients, transaction.client_id).available > 0

\* The entry of id can never be disputed again: it is not under dispute and
\* its owner's account is locked.
Frozen(clients, ledger, ids, id) ==
    /\ InLedger(ledger, id)
    /\ ~ Disputed(ids, id)
    /\ Locked(clients, ledger[id].client_id)

\* C13: once a chargeback of id t has been accepted, no later dispute, resolve
\* or chargeback of t is accepted, from any client, and t is never again
\* under active dispute.  (An accepted chargeback leaves t frozen; a frozen
\* id stays frozen, and a dispute, resolve or chargeback of it only logs.)
C13_ChargedBackIsTerminal ==
    [][ \A id \in 1..MaxTx :
          /\ (/\ Handled
              /\ transaction'.type = CHARGEBACK
              /\ transaction'.id = id
              /\ Disputed(_disputed_deposits_ids, id)
              /\ ~ Disputed(_disputed_deposits_ids', id))
             => Frozen(_clients', _deposits_withdrawals', _disputed_deposits_ids', id)
          /\ Frozen(_clients, _deposits_withdrawals, _disputed_deposits_ids, id)
             => /\ Frozen(_clients', _deposits_withdrawals', _disputed_deposits_ids', id)
                /\ (/\ Handled
                    /\ transaction'.type \in {DISPUTE, RESOLVE, CHARGEBACK}
                    /\ transaction'.id = id)
                   => (NoEffect /\ Len(log') >= 1)
      ]_vars

\* The only entry is a deposit that was charged back (its owner is locked and
\* has no funds left), and another client's dispute of it was refused.
C13_Witness ==
    /\ nread > 0
    /\ transaction.type = DISPUTE
    /\ log = <<DisputeMsg>>
    /\ DOMAIN _deposits_withdrawals = {transaction.id}
    /\ _deposits_withdrawals[transaction.id].type = DEPOSIT
    /\ _deposits_withdrawals[transaction.id].client_id # transaction.client_id
    /\ Frozen(_clients, _deposits_withdrawals, _disputed_deposits_ids, transaction.id)
    /\ AccountOf(_clients, _deposits_withdrawals[transaction.id].client_id).available = 0
    /\ AccountOf(_clients, _deposits_withdrawals[transaction.id].client_id).held = 0

\* The latest record was a resolve and was accepted (a refused one logs).
ResolveAccepted == nread > 0 /\ transaction.type = RESOLVE /\ log = <<>>

\* C14: a dispute of id t by its owner that directly follows an accepted
\* resolve of t is accepted: t is under dispute again and its amount moves
\* from available to held.
C14_DisputeAgainAfterResolve ==
    [][ (/\ ResolveAccepted
         /\ Handled
         /\ transaction'.type = DISPUTE
         /\ transaction'.id = transaction.id
         /\ transaction'.client_id = transaction.client_id)
        => LET t == transaction'
               before == AccountOf(_clients, t.client_id)
               after == AccountOf(_clients', t.client_id)
           IN /\ _disputed_deposits_ids' = Append(_disputed_deposits_ids, t.id)
              /\ after.available = before.available - _deposits_withdrawals[t.id].amount
              /\ after.held = before.held + _deposits_withdrawals[t.id].amount
              /\ after.available >= 0
              /\ log' = <<>>
      ]_vars

\* A resolve was accepted as the third record (after the deposit and its
\* dispute), and one more record can be read.
C14_Witness ==
    /\ ResolveAccepted
    /\ pc = "run"
    /\ nread = 3
    /\ nread < MaxRecords
    /\ ~ Disputed(_disputed_deposits_ids, transaction.id)
    /\ _deposits_withdrawals[transaction.id].client_id = transaction.client_id
    /\ AccountOf(_clients, transaction.client_id).available
           = _deposits_withdrawals[transaction.id].amount

\* C15: the run never aborts and reaches the report; every record is read
\* once, in its turn.
C15_RunReachesReport ==
    /\ [](pc # "crashed")
    /\ <>(pc = "done")
    /\ [][Handled => (pc = "run" /\ pc' = "run")]_vars

\* The report was written after MaxRecords records, the last of them a
\* chargeback of an id that has no entry.
C15_Witness ==
    /\ pc = "done"
    /\ nread = MaxRecords
    /\ transaction.type = CHARGEBACK
    /\ ~ InLedger(_deposits_withdrawals, transaction.id)
    /\ log = <<ChargebackMsg>>
    /\ Len(output) = 1 + Len(_clients)

\* The ids of the clients of the store, in its order.
Ids(clients) == [i \in 1..Len(clients) |-> clients[i].id]

\* C16: the store lists the clients that a valid record named, each once, in
\* the order of their first valid record, and the report lists the store; an
\* account is created with zero balances, unlocked, also when the engine
\* refuses the record that names the client first.
C16_ReportListsClientsInFirstSeenOrder ==
    [][ /\ Handled
            => LET t == transaction'
               IN /\ Ids(_clients') =
                         IF ~ Malformed(t) /\ ~ HasClient(_clients, t.client_id)
                         THEN Append(Ids(_clients), t.client_id)
                         ELSE Ids(_clients)
                  /\ (/\ ~ Malformed(t)
                      /\ ~ HasClient(_clients, t.client_id)
                      /\ t.type # DEPOSIT)
                     => AccountOf(_clients', t.client_id)
                            = [available |-> 0, held |-> 0, locked |-> FALSE]
        /\ pc' = "done"
            => /\ Len(output') = 1 + Len(_clients)
               /\ output'[1] = <<"client", "available", "held", "total", "locked">>
               /\ \A i \in 1..Len(_clients) :
                      output'[i + 1] =
                          <<_clients[i].id, _clients[i].account.available,
                            _clients[i].account.held,
                            _clients[i].account.available + _clients[i].account.held,
                            IF _clients[i].account.locked THEN "true" ELSE "false">>
      ]_vars

\* The report lists client 2 before client 1, and client 2, whose records
\* were all refused, with zero balances.
C16_Witness ==
    /\ pc = "done"
    /\ Len(output) = 3
    /\ output[2] = <<2, 0, 0, 0, "false">>
    /\ output[3][1] = 1
    /\ output[3][2] > 0
    /\ \A id \in DOMAIN _deposits_withdrawals : _deposits_withdrawals[id].client_id = 1

\* C17: a ledger entry is created only by an accepted deposit or withdrawal:
\* a withdrawal refused for insufficient funds, and a deposit or withdrawal
\* to a locked account, record nothing, so the id stays free for a later
\* deposit or withdrawal, and a dispute of an id without entry is refused.
C17_OnlyAcceptedRecordsEnterLedger ==
    [][ Handled
        => LET t == transaction'
               before == AccountOf(_clients, t.client_id)
           IN /\ (_deposits_withdrawals' # _deposits_withdrawals)
                 => /\ ~ Malformed(t)
                    /\ t.type \in {DEPOSIT, WITHDRAWAL}
                    /\ ~ before.locked
                    /\ ~ InLedger(_deposits_withdrawals, t.id)
                    /\ t.type = WITHDRAWAL => before.available >= t.amount
                    /\ DOMAIN _deposits_withdrawals' =
                           DOMAIN _deposits_withdrawals \cup {t.id}
                    /\ _deposits_withdrawals'[t.id] = t
              /\ (/\ ~ Malformed(t)
                  /\ t.type \in {DEPOSIT, WITHDRAWAL}
                  /\ ~ before.locked
                  /\ ~ InLedger(_deposits_withdrawals, t.id)
                  /\ t.type = WITHDRAWAL => before.available >= t.amount)
                 => InLedger(_deposits_withdrawals', t.id)
              /\ (t.type = DISPUTE /\ ~ InLedger(_deposits_withdrawals, t.id))
                 => (NoEffect /\ Len(log') >= 1)
      ]_vars

\* The first record was a withdrawal from a client without funds: it was
\* refused and the ledger is empty, so its id is free.
C17_Witness ==
    /\ nread = 1
    /\ pc = "run"
    /\ transaction.type = WITHDRAWAL
    /\ transaction.amount > 0
    /\ log = <<NoFundsMsg>>
    /\ DOMAIN _deposits_withdrawals = {}
    /\ HasClient(_clients, transaction.client_id)

\* C18: the ledger is append-only: an entry, once recorded, is in every later
\* state with the same client and amount.
C18_LedgerIsAppendOnly ==
    [][ \A id \in DOMAIN _deposits_withdrawals :
            /\ id \in DOMAIN _deposits_withdrawals'
            /\ _deposits_withdrawals'[id] = _deposits_withdrawals[id]
      ]_vars

\* A deposit that reused the id of an entry with another amount was refused,
\* and the ledger, of two entries, still has the first amount.
C18_Witness ==
    /\ nread > 0
    /\ transaction.type = DEPOSIT
    /\ log = <<DuplicatedMsg>>
    /\ Cardinality(DOMAIN _deposits_withdrawals) = 2
    /\ _deposits_withdrawals[transaction.id].amount # transaction.amount

\* The latest record was a dispute and was accepted: its id is the last one
\* appended to the active disputes.
DisputeAccepted ==
    /\ nread > 0
    /\ transaction.type = DISPUTE
    /\ log = <<>>
    /\ _disputed_deposits_ids # <<>>
    /\ _disputed_deposits_ids[Len(_disputed_deposits_ids)] = transaction.id

\* C12 (first part): on an unlocked account a resolve is accepted exactly
\* when the id is under active dispute and the entry is the client's own;
\* then the id leaves the active disputes and the entry's amount moves from
\* held to available; otherwise nothing changes.
ResolveAcceptedIff ==
    [][ (/\ Handled
         /\ transaction'.type = RESOLVE
         /\ ~ Locked(_clients, transaction'.client_id))
        => LET t == transaction'
               before == AccountOf(_clients, t.client_id)
               after == AccountOf(_clients', t.client_id)
           IN IF /\ Disputed(_disputed_deposits_ids, t.id)
                 /\ InLedger(_deposits_withdrawals, t.id)
                 /\ _deposits_withdrawals[t.id].client_id = t.client_id
              THEN /\ _disputed_deposits_ids' = Without(_disputed_deposits_ids, t.id)
                   /\ after.held = before.held - _deposits_withdrawals[t.id].amount
                   /\ after.available = before.available + _deposits_withdrawals[t.id].amount
                   /\ after.locked = before.locked
                   /\ _deposits_withdrawals' = _deposits_withdrawals
                   /\ OnlyAccount(t.client_id)
              ELSE NoEffect
      ]_vars

\* C12: an accepted dispute followed directly by its resolve restores
\* available, held and the active disputes to their values before the dispute.
C12_ResolveRestoresDispute ==
    [][ (/\ DisputeAccepted
         /\ Handled
         /\ transaction'.type = RESOLVE
         /\ transaction'.id = transaction.id
         /\ transaction'.client_id = transaction.client_id)
        => /\ AccountOf(_clients', transaction.client_id) = account_before
           /\ _disputed_deposits_ids' =
                  SubSeq(_disputed_deposits_ids, 1, Len(_disputed_deposits_ids) - 1)
      ]_vars

RECURSIVE SumAmounts(_, _)
\* The sum of the amounts of the entries ids of the ledger.
SumAmounts(ledger, ids) ==
    IF ids = {} THEN 0
    ELSE LET id == CHOOSE x \in ids : TRUE
         IN ledger[id].amount + SumAmounts(ledger, ids \ {id})

\* The ids of client c's entries of the given types.
EntriesOf(c, types) ==
    {id \in DOMAIN _deposits_withdrawals :
        /\ _deposits_withdrawals[id].client_id = c
        /\ _deposits_withdrawals[id].type \in types}

\* The ids of client c's entries under active dispute.
ActiveDisputes(c) ==
    {id \in EntriesOf(c, {DEPOSIT, WITHDRAWAL}) : Disputed(_disputed_deposits_ids, id)}

\* C19: each client's held is the sum of the amounts of the client's entries
\* under active dispute, and is never negative.
C19_HeldIsSumOfActiveDisputes ==
    \A i \in 1..Len(_clients) :
        /\ _clients[i].account.held
               = SumAmounts(_deposits_withdrawals, ActiveDisputes(_clients[i].id))
        /\ _clients[i].account.held >= 0

\* What the ledger says client c's total is, before any chargeback.
LedgerTotal(c) ==
    SumAmounts(_deposits_withdrawals, EntriesOf(c, {DEPOSIT}))
        - SumAmounts(_deposits_withdrawals, EntriesOf(c, {WITHDRAWAL}))

\* C20: each client's total (available + held) is the sum of the accepted
\* deposits minus the sum of the accepted withdrawals minus the amounts of
\* the entries charged back (an account is locked by its one chargeback).
C20_TotalIsSumOfLedger ==
    \A i \in 1..Len(_clients) :
        LET c == _clients[i].id
            account == _clients[i].account
        IN IF account.locked
           THEN \E id \in EntriesOf(c, {DEPOSIT, WITHDRAWAL}) :
                    account.available + account.held
                        = LedgerTotal(c) - _deposits_withdrawals[id].amount
           ELSE account.available + account.held = LedgerTotal(c)

\* C21: handling a record of client c changes available, held and locked of
\* no account but c's, whatever the record's kind and whatever entry its id
\* names, another client's entry included; no other client is added or
\* dropped; and writing the report changes no account.
C21_OnlyOwnAccountChanges ==
    [][ IF Handled
        THEN \A d \in 1..MaxClient :
                 d # transaction'.client_id
                 => /\ AccountOf(_clients', d) = AccountOf(_clients, d)
                    /\ (\E i \in 1..Len(_clients') : _clients'[i].id = d)
                       <=> (\E i \in 1..Len(_clients) : _clients[i].id = d)
        ELSE _clients' = _clients
      ]_vars

\* A resolve sent by one client named another client's entry under dispute:
\* it was refused, and the owner still holds the entry's amount.
C21_Witness ==
    /\ nread > 0
    /\ transaction.type = RESOLVE
    /\ log = <<ResolveMsg>>
    /\ InLedger(_deposits_withdrawals, transaction.id)
    /\ _deposits_withdrawals[transaction.id].client_id # transaction.client_id
    /\ Disputed(_disputed_deposits_ids, transaction.id)
    /\ AccountOf(_clients, _deposits_withdrawals[transaction.id].client_id).held
           = _deposits_withdrawals[transaction.id].amount
    /\ AccountOf(_clients, _deposits_withdrawals[transaction.id].client_id).available = 0
    /\ ~ Locked(_clients, transaction.client_id)

====
